---- MODULE Spec2Model ----
(***************************************************************************)
(* Model of the Pixshop photo editor front end (App component and its      *)
(* panels): the edit history with its position pointer, the asynchronous   *)
(* edit requests, the zoom / pan view state and the click mapping.         *)
(*                                                                         *)
(* Numbers the code computes in floating point (scale, pan position,       *)
(* hotspot coordinates) are modelled as exact rationals <<n, d>> in lowest *)
(* terms with d > 0; IEEE rounding of the individual operations is not     *)
(* modelled.                                                               *)
(***************************************************************************)
EXTENDS Integers, Sequences, FiniteSets, TLC

VARIABLES
    history,          \* useState<File[]>            part_000:40
    historyIndex,     \* useState<number>(-1)        part_000:41
    prompt,           \* useState<string>('')        part_000:42
    isLoading,        \* useState<boolean>(false)    part_000:43
    error,            \* useState<string | null>     part_000:44
    editHotspot,      \* natural-pixel hotspot       part_000:45
    displayHotspot,   \* displayed-space hotspot     part_000:46
    activeTab,        \* useState<Tab>('retouch')    part_000:47
    completedCrop,    \* crop / completedCrop        part_000:49-50
    isDrawing,        \* useState<boolean>(false)    part_000:54
    erasePath,        \* useState<Array<{x,y}>>      part_000:55
    erasePathRef,     \* useRef<Array<{x,y}>>        part_000:62
    eraseCanvas,      \* width / height of the on-screen erase canvas, part_000:61
    scale,            \* useState(1)                 part_000:57
    position,         \* useState({x: 0, y: 0})      part_000:58
    isPanningRef,     \* useRef(false)               part_000:64
    panStartRef,      \* useRef({x: 0, y: 0})        part_000:65
    pending,          \* the suspended async handler (its closure), or NoRequest
    nextId,           \* identity of the next File object to be created
    last,             \* the handler that ran last, with what it was given
    script,           \* observer of the run "upload, N edits, N undos, N redos"
    lastTransform,    \* observer of a transform applied to the result of a transform
    selectedPresetPrompt, \* AdjustmentPanel: useState<string | null>(null)  part_003:16
    customPrompt,         \* AdjustmentPanel: useState('')                   part_003:17
    activeOptions,        \* AdjustmentPanel: 'beautify' | 'contrast' | null part_003:18
    GenerateScreen_prompt,    \* GenerateScreen: useState('')              part_002:20
    GenerateScreen_isLoading, \* GenerateScreen: useState(false)           part_002:21
    GenerateScreen_error,     \* GenerateScreen: useState<string | null>   part_002:22
    generatedImageUrl,        \* GenerateScreen: useState<string | null>   part_002:23
    activeAspect,             \* GenerateScreen: useState<AspectRatio>     part_002:24
    GenerateScreen_pending,   \* the screen's suspended handleGenerate, or NoRequest
    generationOutcome         \* observer: how the last generation settled

histVars == <<history, historyIndex>>
toolVars == <<editHotspot, displayHotspot, completedCrop, isDrawing, erasePath, erasePathRef>>
viewVars == <<scale, position, isPanningRef, panStartRef>>
panelVars == <<selectedPresetPrompt, customPrompt, activeOptions>>
screenVars == <<GenerateScreen_prompt, GenerateScreen_isLoading, GenerateScreen_error,
               generatedImageUrl, activeAspect, GenerateScreen_pending, generationOutcome>>
appVars == <<history, historyIndex, prompt, isLoading, error, editHotspot, displayHotspot,
             activeTab, completedCrop, isDrawing, erasePath, erasePathRef, eraseCanvas,
             scale, position, isPanningRef, panStartRef, pending, nextId, script,
             lastTransform, selectedPresetPrompt, customPrompt, activeOptions>>
vars == <<history, historyIndex, prompt, isLoading, error, editHotspot, displayHotspot,
          activeTab, completedCrop, isDrawing, erasePath, erasePathRef, scale, position,
          isPanningRef, panStartRef, pending, nextId, last, script,
          eraseCanvas, lastTransform,
          selectedPresetPrompt, customPrompt, activeOptions,
          GenerateScreen_prompt, GenerateScreen_isLoading, GenerateScreen_error,
          generatedImageUrl, activeAspect, GenerateScreen_pending, generationOutcome>>

(***************************************************************************)
(* Bounds of the model.                                                    *)
(***************************************************************************)
MaxFiles == 3          \* File objects created in one run of the editor model
MaxFilesZoom == 1      \* File objects created in one run of the zoom, pan and click models
MaxPath == 2           \* points recorded in one erase gesture
MaxDen == 1953125      \* zoom model: largest denominator of scale and pan (5^9)
MaxWheelDen == 10      \* zoom model: largest denominator a wheel step may produce
MaxPos == 36           \* zoom model: largest |pan coordinate|
MaxPanDen == 10        \* pan model: largest denominator of scale and pan
MaxPan == 4            \* pan model: largest |pan coordinate|
MaxClickDen == 10      \* click model: largest denominator of scale and pan
MaxClickPan == 4       \* click model: largest |pan coordinate|
MaxFilesTool == 2      \* File objects created in one run of a single-tool model
MaxFilesTransform == 3 \* File objects created in one run of the transform model

(***************************************************************************)
(* Exact rational arithmetic.                                              *)
(***************************************************************************)
Abs(n) == IF n < 0 THEN -n ELSE n

RECURSIVE GCD(_, _)
GCD(a, b) == IF b = 0 THEN a ELSE GCD(b, a % b)

Rat(n, d) ==
    LET g == GCD(Abs(n), Abs(d))
        s == IF d < 0 THEN -1 ELSE 1
    IN  <<s * (n \div g), s * (d \div g)>>

Int2Rat(n) == <<n, 1>>

RAdd(a, b) == Rat(a[1] * b[2] + b[1] * a[2], a[2] * b[2])
RSub(a, b) == Rat(a[1] * b[2] - b[1] * a[2], a[2] * b[2])

\* Products cancel common factors across the operands first, so that the
\* intermediate values stay as small as the result.
RMul(a, b) ==
    LET g1 == GCD(Abs(a[1]), b[2])
        g2 == GCD(Abs(b[1]), a[2])
    IN  Rat((a[1] \div g1) * (b[1] \div g2), (a[2] \div g2) * (b[2] \div g1))

RDiv(a, b) == IF b[1] < 0 THEN RMul(a, <<-b[2], -b[1]>>) ELSE RMul(a, <<b[2], b[1]>>)

RLt(a, b) == a[1] * b[2] < b[1] * a[2]
RLe(a, b) == a[1] * b[2] <= b[1] * a[2]
RMin(a, b) == IF RLt(b, a) THEN b ELSE a
RMax(a, b) == IF RLt(a, b) THEN b ELSE a
RAbs(a) == <<Abs(a[1]), a[2]>>

\* Math.floor in the place of Math.round.
MathRound_Floor(a) == a[1] \div a[2]

\* Math.round: the nearest integer, halves rounded towards +infinity.
MathRound(a) == (2 * a[1] + a[2]) \div (2 * a[2])

ZeroPos == [x |-> Int2Rat(0), y |-> Int2Rat(0)]

(***************************************************************************)
(* Values.                                                                 *)
(***************************************************************************)
Null == <<>>
Some(v) == <<v>>
Val(o) == o[1]

Tabs == {"retouch", "erase", "adjust", "filters", "crop", "transform"}
Transformations == {"rotate-left", "rotate-right", "flip-horizontal", "flip-vertical"}

\* The layout: the image container's bounding rectangle.  The displayed <img>
\* fills it (className "w-full h-full"), so its client size is the container's.
ContainerLeft == 1
ContainerTop == 1
ContainerW == 8
ContainerH == 4
\* window.devicePixelRatio || 1; an undefined ratio is written 0.
PixelRatio(devicePixelRatio) == IF devicePixelRatio = 0 THEN 1 ELSE devicePixelRatio

\* Natural sizes of the images a user uploads or the service returns.
Dims == {<<8, 4>>, <<6, 2>>}
\* Natural sizes the service answers with.
ServiceDims == {<<8, 4>>}
\* Prompt texts: empty, blank, and one with content.
Prompts == {"", " ", "make it blue"}
\* Pointer positions (clientX, clientY) of mouse events.
ClientPoints == {<<1, 1>>, <<5, 3>>, <<11, 3>>}
\* Rectangles a completed crop selection can have, in displayed pixels.
CropRects == {[x |-> 1, y |-> 1, width |-> 3, height |-> 2]}

File(id, w, h) == [id |-> id, w |-> w, h |-> h]

\* A trim that returns its argument.
Trim_Identity(str) == str

Trim(str) == IF str = " " THEN "" ELSE str

currentImage ==
    IF historyIndex >= 0 /\ historyIndex < Len(history)
    THEN Some(history[historyIndex + 1]) ELSE Null

\* Off-by-one variants of the two guards.
canUndo_OffByOne == historyIndex >= 0
canRedo_OffByOne == historyIndex < Len(history) - 2

canUndo == historyIndex > 0
canRedo == historyIndex < Len(history) - 1

(***************************************************************************)
(* What is mounted: the conditions under which the render function puts a  *)
(* control on the page.                                                    *)
(***************************************************************************)
EditorShown == currentImage # Null
ImageAreaShown == EditorShown /\ error = Null
ImageDisplayShown == ImageAreaShown /\ activeTab # "crop"
PointerOnImage == ImageDisplayShown /\ ~isLoading
PanelEnabled(tab) == ImageAreaShown /\ activeTab = tab /\ ~isLoading
\* The erase canvas is rendered in the erase tab while nothing is loading.
EraseCanvasShown == ImageDisplayShown /\ activeTab = "erase" /\ ~isLoading

\* The adjustment panel is rendered in the adjust tab; while a request is
\* loading it stays mounted with its controls disabled.
AdjustmentPanelShown == ImageAreaShown /\ activeTab = "adjust"

\* The state of a panel that has just been mounted.
InitialPanel == <<Null, "", Null>>

\* The panel's state after a step that wrote panel to it: a panel that is not
\* on the page has no state, and is mounted again with its initial state.
SetPanel(panel) ==
    LET p == IF AdjustmentPanelShown' THEN panel ELSE InitialPanel
    IN  /\ selectedPresetPrompt' = p[1]
        /\ customPrompt' = p[2]
        /\ activeOptions' = p[3]

\* The panel after a step of the application that is not one of its own.
PanelEffect == SetPanel(panelVars)

\* The bounding rectangle of the displayed image, which fills the container.
ImageRect == [width |-> ContainerW, height |-> ContainerH]
\* A canvas element that was given no size has the default size of the
\* platform.
DefaultCanvas == [width |-> 300, height |-> 150]
\* Rectangles the displayed image can have after the window was resized.
CanvasSizes == {[width |-> 8, height |-> 4], [width |-> 4, height |-> 2]}

\* What a render does to the erase canvas.  The element exists only while
\* EraseCanvasShown; the resize effect runs again, and sizes the canvas to the
\* image's rectangle, when activeTab or the current image changed; a canvas
\* mounted without a run of the effect keeps its default size.
CanvasEffect ==
    eraseCanvas' =
        IF ~EraseCanvasShown' THEN Null
        ELSE IF activeTab' # activeTab \/ currentImage' # currentImage
        THEN Some(ImageRect)
        ELSE IF eraseCanvas # Null THEN eraseCanvas
        ELSE Some(DefaultCanvas)

(***************************************************************************)
(* Observers.  `last` names the handler that ran last and what it was      *)
(* given.  `script` follows a run of the shape "upload, then N completed   *)
(* edits, then N undos, then N redos" for as long as the run has that      *)
(* shape: it records the uploaded file, the files the edits made, the      *)
(* number of undos and the files the redos showed.  Handlers that leave    *)
(* the history alone do not disturb it; anything else switches it off.     *)
(***************************************************************************)
ScriptOff == [phase |-> "off", original |-> Null, made |-> <<>>, undone |-> 0, visited |-> <<>>]

Observe(op, arg) ==
    CASE op = "handleImageUpload" ->
            IF pending = Null
            THEN [phase |-> "edits", original |-> Some(arg[1]), made |-> <<>>,
                  undone |-> 0, visited |-> <<>>]
            ELSE ScriptOff
      [] op = "addImageToHistory" ->
            IF script.phase = "edits"
            THEN [script EXCEPT !.made = Append(@, arg[1])]
            ELSE ScriptOff
      [] op = "handleUndo" ->
            IF script.phase \in {"edits", "undos"} /\ script.undone < Len(script.made)
               /\ pending = Null
            THEN [script EXCEPT !.phase = "undos", !.undone = @ + 1]
            ELSE ScriptOff
      [] op = "handleRedo" ->
            IF /\ script.phase \in {"undos", "redos"}
               /\ script.undone = Len(script.made)
               /\ Len(script.visited) < Len(script.made)
               /\ pending = Null
            THEN [script EXCEPT !.phase = "redos",
                                !.visited = Append(@, history'[historyIndex' + 1])]
            ELSE ScriptOff
      [] op \in {"handleReset", "handleUploadNew"} -> ScriptOff
      [] OTHER ->
            IF script.phase \in {"undos", "redos"} /\ pending' # Null
            THEN ScriptOff ELSE script

\* The transform that made the current image, for as long as the next thing
\* that happens to that image is another transform of it.
ObserveTransform(op, arg) ==
    IF op = "addImageToHistory" /\ arg[2] = "transform"
    THEN Some([file  |-> arg[1],
               from  |-> <<Val(pending).image.w, Val(pending).image.h>>,
               by    |-> Val(pending).arg[1],
               after |-> IF /\ lastTransform # Null
                            /\ Val(lastTransform).file = Val(pending).image
                         THEN Val(lastTransform).by ELSE ""])
    ELSE IF /\ op = "handleTransform" /\ pending' # Null /\ lastTransform # Null
            /\ Val(lastTransform).file = Val(pending').image
    THEN lastTransform
    ELSE Null

Did(op, arg) ==
    /\ last' = [op |-> op, arg |-> arg]
    /\ script' = Observe(op, arg)
    /\ lastTransform' = ObserveTransform(op, arg)

(***************************************************************************)
(* Helpers shared by the handlers.                                         *)
(***************************************************************************)
resetView ==
    /\ scale' = Int2Rat(1)
    /\ position' = ZeroPos

handleClearErase ==
    /\ erasePathRef' = <<>>
    /\ erasePath' = <<>>

\* h and hi are the history and historyIndex of the render whose closure runs.
addImageToHistory(h, hi, newImageFile) ==
    LET newHistory == Append(SubSeq(h, 1, hi + 1), newImageFile)
    IN  /\ history' = newHistory
        /\ historyIndex' = Len(newHistory) - 1
        /\ completedCrop' = Null
        /\ handleClearErase

(***************************************************************************)
(* Upload and session handlers.                                            *)
(***************************************************************************)
handleImageUpload_KeepsCrop(file) ==
    /\ ~EditorShown
    /\ error' = Null
    /\ history' = <<file>>
    /\ historyIndex' = 0
    /\ editHotspot' = Null
    /\ displayHotspot' = Null
    /\ activeTab' = "retouch"
    /\ handleClearErase
    /\ resetView
    /\ nextId' = nextId + 1
    /\ UNCHANGED <<prompt, isLoading, isDrawing, isPanningRef, panStartRef, pending,
                   completedCrop>>
    /\ CanvasEffect
    /\ PanelEffect
    /\ UNCHANGED screenVars
    /\ Did("handleImageUpload", <<file>>)

handleImageUpload(file) ==
    /\ ~EditorShown
    /\ error' = Null
    /\ history' = <<file>>
    /\ historyIndex' = 0
    /\ editHotspot' = Null
    /\ displayHotspot' = Null
    /\ activeTab' = "retouch"
    /\ completedCrop' = Null
    /\ handleClearErase
    /\ resetView
    /\ nextId' = nextId + 1
    /\ UNCHANGED <<prompt, isLoading, isDrawing, isPanningRef, panStartRef, pending>>
    /\ CanvasEffect
    /\ PanelEffect
    /\ UNCHANGED screenVars
    /\ Did("handleImageUpload", <<file>>)

\* An "Upload New" that empties the history and leaves its position.
handleUploadNew_KeepsIndex ==
    /\ EditorShown
    /\ history' = <<>>
    /\ error' = Null
    /\ prompt' = ""
    /\ editHotspot' = Null
    /\ displayHotspot' = Null
    /\ handleClearErase
    /\ resetView
    /\ UNCHANGED <<historyIndex, isLoading, activeTab, completedCrop, isDrawing,
                   isPanningRef, panStartRef, pending, nextId>>
    /\ CanvasEffect
    /\ PanelEffect
    /\ UNCHANGED screenVars
    /\ Did("handleUploadNew", <<>>)

handleUploadNew ==
    /\ EditorShown
    /\ history' = <<>>
    /\ historyIndex' = -1
    /\ error' = Null
    /\ prompt' = ""
    /\ editHotspot' = Null
    /\ displayHotspot' = Null
    /\ handleClearErase
    /\ resetView
    /\ UNCHANGED <<isLoading, activeTab, completedCrop, isDrawing, isPanningRef,
                   panStartRef, pending, nextId>>
    /\ CanvasEffect
    /\ PanelEffect
    /\ UNCHANGED screenVars
    /\ Did("handleUploadNew", <<>>)

handleTabChange_KeepsView(tabId) ==
    /\ EditorShown
    /\ IF activeTab # tabId
       THEN /\ editHotspot' = Null
            /\ displayHotspot' = Null
            /\ handleClearErase
            /\ completedCrop' = Null
            /\ activeTab' = tabId
       ELSE UNCHANGED <<editHotspot, displayHotspot, erasePathRef,
                        erasePath, completedCrop, activeTab>>
    /\ UNCHANGED <<scale, position, history, historyIndex, prompt, isLoading, error,
                   isDrawing, isPanningRef, panStartRef, pending, nextId>>
    /\ CanvasEffect
    /\ PanelEffect
    /\ UNCHANGED screenVars
    /\ Did("handleTabChange", <<activeTab # tabId>>)

handleTabChange(tabId) ==
    /\ EditorShown
    /\ IF activeTab # tabId
       THEN /\ resetView
            /\ editHotspot' = Null
            /\ displayHotspot' = Null
            /\ handleClearErase
            /\ completedCrop' = Null
            /\ activeTab' = tabId
       ELSE UNCHANGED <<scale, position, editHotspot, displayHotspot, erasePathRef,
                        erasePath, completedCrop, activeTab>>
    /\ UNCHANGED <<history, historyIndex, prompt, isLoading, error, isDrawing,
                   isPanningRef, panStartRef, pending, nextId>>
    /\ CanvasEffect
    /\ PanelEffect
    /\ UNCHANGED screenVars
    /\ Did("handleTabChange", <<activeTab # tabId>>)

\* The "Try Again" button of the error panel.
clearError ==
    /\ EditorShown
    /\ error # Null
    /\ error' = Null
    /\ UNCHANGED <<histVars, prompt, isLoading, toolVars, activeTab, viewVars, pending, nextId>>
    /\ CanvasEffect
    /\ PanelEffect
    /\ UNCHANGED screenVars
    /\ Did("clearError", <<>>)

(***************************************************************************)
(* Undo, redo, reset.                                                      *)
(***************************************************************************)
handleUndo ==
    /\ EditorShown
    /\ IF canUndo
       THEN /\ historyIndex' = historyIndex - 1
            /\ editHotspot' = Null
            /\ displayHotspot' = Null
            /\ handleClearErase
            /\ resetView
       ELSE UNCHANGED <<historyIndex, editHotspot, displayHotspot, erasePathRef,
                        erasePath, scale, position>>
    /\ UNCHANGED <<history, prompt, isLoading, error, activeTab, completedCrop,
                   isDrawing, isPanningRef, panStartRef, pending, nextId>>
    /\ CanvasEffect
    /\ PanelEffect
    /\ UNCHANGED screenVars
    /\ Did("handleUndo", <<historyIndex>>)

handleRedo ==
    /\ EditorShown
    /\ IF canRedo
       THEN /\ historyIndex' = historyIndex + 1
            /\ editHotspot' = Null
            /\ displayHotspot' = Null
            /\ handleClearErase
            /\ resetView
       ELSE UNCHANGED <<historyIndex, editHotspot, displayHotspot, erasePathRef,
                        erasePath, scale, position>>
    /\ UNCHANGED <<history, prompt, isLoading, error, activeTab, completedCrop,
                   isDrawing, isPanningRef, panStartRef, pending, nextId>>
    /\ CanvasEffect
    /\ PanelEffect
    /\ UNCHANGED screenVars
    /\ Did("handleRedo", <<historyIndex>>)

\* A reset that also drops the edits.
handleReset_DropsEdits ==
    /\ EditorShown
    /\ IF Len(history) > 0
       THEN /\ history' = <<history[1]>>
            /\ historyIndex' = 0
            /\ error' = Null
            /\ editHotspot' = Null
            /\ displayHotspot' = Null
            /\ handleClearErase
            /\ resetView
       ELSE UNCHANGED <<history, historyIndex, error, editHotspot, displayHotspot, erasePathRef,
                        erasePath, scale, position>>
    /\ UNCHANGED <<prompt, isLoading, activeTab, completedCrop,
                   isDrawing, isPanningRef, panStartRef, pending, nextId>>
    /\ CanvasEffect
    /\ PanelEffect
    /\ UNCHANGED screenVars
    /\ Did("handleReset", <<historyIndex, error # Null>>)

handleReset ==
    /\ EditorShown
    /\ IF Len(history) > 0
       THEN /\ historyIndex' = 0
            /\ error' = Null
            /\ editHotspot' = Null
            /\ displayHotspot' = Null
            /\ handleClearErase
            /\ resetView
       ELSE UNCHANGED <<historyIndex, error, editHotspot, displayHotspot, erasePathRef,
                        erasePath, scale, position>>
    /\ UNCHANGED <<history, prompt, isLoading, activeTab, completedCrop,
                   isDrawing, isPanningRef, panStartRef, pending, nextId>>
    /\ CanvasEffect
    /\ PanelEffect
    /\ UNCHANGED screenVars
    /\ Did("handleReset", <<historyIndex, error # Null>>)

(***************************************************************************)
(* Asynchronous edits.  A handler that reaches its await is suspended in    *)
(* `pending` together with the values its closure captured at the render   *)
(* it was created in (currentImage, history, historyIndex through          *)
(* addImageToHistory); settling the promise runs the rest of the handler.  *)
(***************************************************************************)
Request(kind, arg) ==
    [kind |-> kind, arg |-> arg, image |-> Val(currentImage),
     history |-> history, historyIndex |-> historyIndex]

\* A request that starts without setIsLoading(true).
StartRequest_NotLoading(kind, arg) ==
    /\ isLoading' = isLoading
    /\ error' = Null
    /\ pending' = Some(Request(kind, arg))

\* setIsLoading(true); setError(null); then the awaited call.
StartRequest(kind, arg) ==
    /\ isLoading' = TRUE
    /\ error' = Null
    /\ pending' = Some(Request(kind, arg))

\* An early return that only reports an error.
Refuse(message) ==
    /\ error' = Some(message)
    /\ UNCHANGED <<isLoading, pending>>

setPrompt(value) ==
    /\ PanelEnabled("retouch")
    /\ prompt' = value
    /\ UNCHANGED <<histVars, isLoading, error, toolVars, activeTab, viewVars, pending, nextId>>
    /\ CanvasEffect
    /\ PanelEffect
    /\ UNCHANGED screenVars
    /\ Did("setPrompt", <<value>>)

handleGenerate ==
    /\ PanelEnabled("retouch")
    /\ IF currentImage = Null THEN Refuse("No image loaded to edit.")
       ELSE IF Trim(prompt) = "" THEN Refuse("Please enter a description for your edit.")
       ELSE IF editHotspot = Null
            THEN Refuse("Please click on the image to select an area to edit.")
       ELSE StartRequest("retouch", <<prompt, Val(editHotspot)>>)
    /\ UNCHANGED <<histVars, prompt, toolVars, activeTab, viewVars, nextId>>
    /\ CanvasEffect
    /\ PanelEffect
    /\ UNCHANGED screenVars
    /\ Did("handleGenerate", <<>>)

\* A mask canvas with the size of the on-screen canvas.
EraseMask_CanvasSized(image, displayCanvas, path) ==
    LET scaleX == Rat(image.w, displayCanvas.width)
        scaleY == Rat(image.h, displayCanvas.height)
    IN  [width |-> displayCanvas.width, height |-> displayCanvas.height,
         fillStyle |-> "black", strokeStyle |-> "white",
         lineWidth |-> RMul(Int2Rat(30), scaleX),
         lineCap |-> "round", lineJoin |-> "round",
         points |-> [i \in 1..Len(path) |->
                        [x |-> RMul(Int2Rat(path[i].x), scaleX),
                         y |-> RMul(Int2Rat(path[i].y), scaleY)]]]

\* A mask whose points are all scaled by the horizontal factor.
EraseMask_OneFactor(image, displayCanvas, path) ==
    LET scaleX == Rat(image.w, displayCanvas.width)
    IN  [width |-> image.w, height |-> image.h,
         fillStyle |-> "black", strokeStyle |-> "white",
         lineWidth |-> RMul(Int2Rat(30), scaleX),
         lineCap |-> "round", lineJoin |-> "round",
         points |-> [i \in 1..Len(path) |->
                        [x |-> RMul(Int2Rat(path[i].x), scaleX),
                         y |-> RMul(Int2Rat(path[i].y), scaleX)]]]

\* The mask drawn from the recorded path: a canvas of the image's natural size,
\* the path scaled from displayed-canvas space, stroke width 30 * scaleX.
EraseMask(image, displayCanvas, path) ==
    LET scaleX == Rat(image.w, displayCanvas.width)
        scaleY == Rat(image.h, displayCanvas.height)
    IN  [width |-> image.w, height |-> image.h,
         fillStyle |-> "black", strokeStyle |-> "white",
         lineWidth |-> RMul(Int2Rat(30), scaleX),
         lineCap |-> "round", lineJoin |-> "round",
         points |-> [i \in 1..Len(path) |->
                        [x |-> RMul(Int2Rat(path[i].x), scaleX),
                         y |-> RMul(Int2Rat(path[i].y), scaleY)]]]

\* The erase handler with a guard that lets a single point through.
handleApplyErase_OnePointEnough ==
    /\ PanelEnabled("erase")
    /\ IF currentImage = Null \/ Len(erasePathRef) < 1 \/ eraseCanvas = Null
       THEN Refuse("Please draw on the image to select an area to erase.")
       ELSE StartRequest("erase", <<EraseMask(Val(currentImage), Val(eraseCanvas),
                                               erasePathRef)>>)
    /\ UNCHANGED <<histVars, prompt, toolVars, activeTab, viewVars, nextId>>
    /\ CanvasEffect
    /\ PanelEffect
    /\ UNCHANGED screenVars
    /\ Did("handleApplyErase", <<>>)

handleApplyErase ==
    /\ PanelEnabled("erase")
    /\ IF currentImage = Null \/ Len(erasePathRef) < 2 \/ eraseCanvas = Null
       THEN Refuse("Please draw on the image to select an area to erase.")
       ELSE StartRequest("erase", <<EraseMask(Val(currentImage), Val(eraseCanvas),
                                               erasePathRef)>>)
    /\ UNCHANGED <<histVars, prompt, toolVars, activeTab, viewVars, nextId>>
    /\ CanvasEffect
    /\ PanelEffect
    /\ UNCHANGED screenVars
    /\ Did("handleApplyErase", <<>>)

handleApplyFilter ==
    /\ PanelEnabled("filters")
    /\ IF currentImage = Null THEN Refuse("No image loaded to apply a filter to.")
       ELSE StartRequest("filter", <<>>)
    /\ UNCHANGED <<histVars, prompt, toolVars, activeTab, viewVars, nextId>>
    /\ CanvasEffect
    /\ PanelEffect
    /\ UNCHANGED screenVars
    /\ Did("handleApplyFilter", <<>>)

\* The application's handler behind the panel's onApplyAdjustment; the panel
\* handler that calls it says what becomes of the panel's own state.
handleApplyAdjustment(adjustmentPrompt) ==
    /\ IF currentImage = Null THEN Refuse("No image loaded to apply an adjustment to.")
       ELSE StartRequest("adjust", <<adjustmentPrompt>>)
    /\ UNCHANGED <<histVars, prompt, toolVars, activeTab, viewVars, nextId>>
    /\ CanvasEffect

(***************************************************************************)
(* The adjustment panel.                                                   *)
(***************************************************************************)
PresetPrompts ==
    {"Apply a realistic depth-of-field effect, making the background blurry while keeping the main subject in sharp focus.",
     "Slightly enhance the sharpness and details of the image without making it look unnatural.",
     "Adjust the color temperature to give the image warmer, golden-hour style lighting.",
     "Add dramatic, professional studio lighting to the main subject."}

AutoAdjustPrompt ==
    "Automatically enhance the image's lighting, color balance, and contrast for a professional, natural look. Do not crop or change the composition."

\* selectedPresetPrompt || customPrompt
activePrompt ==
    IF selectedPresetPrompt # Null /\ Val(selectedPresetPrompt) # ""
    THEN Val(selectedPresetPrompt) ELSE customPrompt

\* A disabled attribute that looks at isLoading alone.
ApplyButtonEnabled_NoTrim ==
    /\ AdjustmentPanelShown
    /\ activePrompt # ""
    /\ ~isLoading

\* The "Apply Adjustment" button is rendered when activePrompt is truthy, and
\* is disabled when isLoading || !activePrompt.trim().
ApplyButtonEnabled ==
    /\ AdjustmentPanelShown
    /\ activePrompt # ""
    /\ ~(isLoading \/ Trim(activePrompt) = "")

handleOptionToggle(option) ==
    /\ PanelEnabled("adjust")
    /\ UNCHANGED <<histVars, prompt, isLoading, error, toolVars, activeTab, viewVars,
                   pending, nextId>>
    /\ CanvasEffect
    /\ SetPanel(<<selectedPresetPrompt, customPrompt,
                  IF activeOptions = Some(option) THEN Null ELSE Some(option)>>)
    /\ UNCHANGED screenVars
    /\ Did("handleOptionToggle", <<option>>)

handlePresetClick(presetPrompt) ==
    /\ PanelEnabled("adjust")
    /\ UNCHANGED <<histVars, prompt, isLoading, error, toolVars, activeTab, viewVars,
                   pending, nextId>>
    /\ CanvasEffect
    /\ SetPanel(<<Some(presetPrompt), "", Null>>)
    /\ UNCHANGED screenVars
    /\ Did("handlePresetClick", <<presetPrompt>>)

\* onChange of the text input: value is e.target.value.
handleCustomChange(value) ==
    /\ PanelEnabled("adjust")
    /\ UNCHANGED <<histVars, prompt, isLoading, error, toolVars, activeTab, viewVars,
                   pending, nextId>>
    /\ CanvasEffect
    /\ SetPanel(<<Null, value, Null>>)
    /\ UNCHANGED screenVars
    /\ Did("handleCustomChange", <<value>>)

\* A click on the "Apply Adjustment" button.
handleApply ==
    /\ ApplyButtonEnabled
    /\ IF activePrompt # ""
       THEN handleApplyAdjustment(activePrompt)
       ELSE /\ UNCHANGED <<histVars, prompt, isLoading, error, toolVars, activeTab,
                           viewVars, pending, nextId>>
            /\ CanvasEffect
    /\ SetPanel(panelVars)
    /\ UNCHANGED screenVars
    /\ Did("handleApply", <<activePrompt>>)

handleAutoAdjust ==
    /\ PanelEnabled("adjust")
    /\ handleApplyAdjustment(AutoAdjustPrompt)
    /\ SetPanel(<<selectedPresetPrompt, customPrompt, Null>>)
    /\ UNCHANGED screenVars
    /\ Did("handleAutoAdjust", <<AutoAdjustPrompt>>)

handleTransform(transformation) ==
    /\ PanelEnabled("transform")
    /\ IF currentImage = Null THEN Refuse("No image loaded to transform.")
       ELSE StartRequest("transform", <<transformation>>)
    /\ UNCHANGED <<histVars, prompt, toolVars, activeTab, viewVars, nextId>>
    /\ CanvasEffect
    /\ PanelEffect
    /\ UNCHANGED screenVars
    /\ Did("handleTransform", <<transformation>>)

\* A canvas that always has the source's width and height.
TransformedDims_NeverSwaps(image, transformation) == <<image.w, image.h>>

\* The canvas the transform draws on: rotations swap width and height.
TransformedDims(image, transformation) ==
    IF transformation \in {"rotate-left", "rotate-right"}
    THEN <<image.h, image.w>>
    ELSE <<image.w, image.h>>

\* Natural sizes the settled request can produce: the service is opaque and may
\* return any size; a transform draws its own canvas.
ResultDims(req) ==
    IF req.kind = "transform"
    THEN {TransformedDims(req.image, req.arg[1])}
    ELSE ServiceDims

FailureMessage(kind) ==
    CASE kind = "retouch"   -> "Failed to generate the image."
      [] kind = "erase"     -> "Failed to apply the erase."
      [] kind = "filter"    -> "Failed to apply the filter."
      [] kind = "adjust"    -> "Failed to apply the adjustment."
      [] kind = "transform" -> "Failed to apply the transformation."

\* The awaited promise fulfils and the data URL parses: the try block runs on.
RequestFulfilled(dims) ==
    /\ pending # Null
    /\ dims \in ResultDims(Val(pending))
    /\ isLoading' = FALSE
    /\ pending' = Null
    /\ nextId' = nextId + 1
    /\ UNCHANGED <<prompt, error, activeTab, isDrawing, viewVars>>
    /\ LET req == Val(pending)
           newImageFile == File(nextId, dims[1], dims[2])
       IN  /\ addImageToHistory(req.history, req.historyIndex, newImageFile)
           /\ IF req.kind = "retouch"
              THEN editHotspot' = Null /\ displayHotspot' = Null
              ELSE UNCHANGED <<editHotspot, displayHotspot>>
           /\ CanvasEffect
           /\ PanelEffect
           /\ UNCHANGED screenVars
           /\ Did("addImageToHistory",
                  <<newImageFile, req.kind, historyIndex < Len(history) - 1>>)

\* A catch block that also steps back to the first snapshot.
RequestRejected_Rewinds ==
    /\ pending # Null
    /\ error' = Some(FailureMessage(Val(pending).kind))
    /\ isLoading' = FALSE
    /\ pending' = Null
    /\ history' = history
    /\ historyIndex' = 0
    /\ UNCHANGED <<prompt, toolVars, activeTab, viewVars, nextId>>
    /\ CanvasEffect
    /\ PanelEffect
    /\ UNCHANGED screenVars
    /\ Did("requestRejected", <<Val(pending).kind>>)

\* The awaited promise rejects, or dataURLtoFile throws: catch, then finally.
RequestRejected ==
    /\ pending # Null
    /\ error' = Some(FailureMessage(Val(pending).kind))
    /\ isLoading' = FALSE
    /\ pending' = Null
    /\ UNCHANGED <<histVars, prompt, toolVars, activeTab, viewVars, nextId>>
    /\ CanvasEffect
    /\ PanelEffect
    /\ UNCHANGED screenVars
    /\ Did("requestRejected", <<Val(pending).kind>>)

(***************************************************************************)
(* Crop: synchronous.                                                      *)
(***************************************************************************)
\* ReactCrop's onChange / onComplete at the end of a selection drag.
setCompletedCrop(c) ==
    /\ ImageAreaShown
    /\ activeTab = "crop"
    /\ ~isLoading
    /\ completedCrop' = Some(c)
    /\ UNCHANGED <<histVars, prompt, isLoading, error, editHotspot, displayHotspot,
                   activeTab, isDrawing, erasePath, erasePathRef, viewVars, pending, nextId>>
    /\ CanvasEffect
    /\ PanelEffect
    /\ UNCHANGED screenVars
    /\ Did("setCompletedCrop", <<c>>)

\* What drawImage reads and the size of the canvas it writes to.
CropGeometry(image, c, pixelRatio) ==
    LET scaleX == Rat(image.w, ContainerW)
        scaleY == Rat(image.h, ContainerH)
    IN  [sx |-> RMul(Int2Rat(c.x), scaleX), sy |-> RMul(Int2Rat(c.y), scaleY),
         sw |-> RMul(Int2Rat(c.width), scaleX), sh |-> RMul(Int2Rat(c.height), scaleY),
         width |-> c.width * pixelRatio, height |-> c.height * pixelRatio]

\* canvas.toDataURL('image/png'): a canvas without pixels gives "data:,".
toDataURL(width, height) ==
    IF width = 0 \/ height = 0 THEN "data:," ELSE "data:image/png;base64,"

\* dataURLtoFile returns a File for a URL with a comma and a MIME type between
\* ':' and ';', and throws for any other.
dataURLParses(dataurl) == dataurl = "data:image/png;base64,"

\* The handler runs outside any try block: when dataURLtoFile throws, nothing
\* of the state has been set.
handleApplyCrop(devicePixelRatio) ==
    /\ PanelEnabled("crop")
    /\ UNCHANGED <<prompt, isLoading, editHotspot, displayHotspot, activeTab, isDrawing,
                   viewVars, pending>>
    /\ IF completedCrop = Null
       THEN /\ error' = Some("Please select an area to crop.")
            /\ UNCHANGED <<histVars, completedCrop, erasePath, erasePathRef, nextId>>
            /\ CanvasEffect
            /\ PanelEffect
            /\ UNCHANGED screenVars
            /\ Did("handleApplyCrop", <<>>)
       ELSE LET g == CropGeometry(Val(currentImage), Val(completedCrop),
                                  PixelRatio(devicePixelRatio))
                newImageFile == File(nextId, g.width, g.height)
            IN  IF dataURLParses(toDataURL(g.width, g.height))
                THEN /\ addImageToHistory(history, historyIndex, newImageFile)
                     /\ nextId' = nextId + 1
                     /\ UNCHANGED error
                     /\ CanvasEffect
                     /\ PanelEffect
                     /\ UNCHANGED screenVars
                     /\ Did("addImageToHistory",
                            <<newImageFile, "crop", historyIndex < Len(history) - 1,
                              g, devicePixelRatio>>)
                ELSE /\ UNCHANGED <<histVars, error, completedCrop, erasePath,
                                    erasePathRef, nextId>>
                     /\ CanvasEffect
                     /\ PanelEffect
                     /\ UNCHANGED screenVars
                     /\ Did("handleApplyCrop", <<"Could not parse MIME type from data URL">>)

(***************************************************************************)
(* Retouch click: container point -> displayed image point -> natural      *)
(* pixel.  An event e is the pair <<clientX, clientY>>.                    *)
(***************************************************************************)
\* Inverse of the pan / scale transform (transform-origin 0 0).
ToImagePoint(e, pos, s) ==
    LET mouseX == Int2Rat(e[1] - ContainerLeft)
        mouseY == Int2Rat(e[2] - ContainerTop)
    IN  [imageX |-> RDiv(RSub(mouseX, pos.x), s),
         imageY |-> RDiv(RSub(mouseY, pos.y), s)]

\* The rejection test without its upper bounds.
OutsideImage_LowerOnly(pt) ==
    \/ RLt(pt.imageX, Int2Rat(0))
    \/ RLt(pt.imageY, Int2Rat(0))

\* The rejection test of the click handler.
OutsideImage(pt) ==
    \/ RLt(pt.imageX, Int2Rat(0))
    \/ RLt(pt.imageY, Int2Rat(0))
    \/ RLt(Int2Rat(ContainerW), pt.imageX)
    \/ RLt(Int2Rat(ContainerH), pt.imageY)

\* Displayed image point -> natural pixel, rounded.
ToNaturalPixel(pt, image) ==
    LET scaleX == Rat(image.w, ContainerW)
        scaleY == Rat(image.h, ContainerH)
    IN  [x |-> MathRound(RMul(pt.imageX, scaleX)),
         y |-> MathRound(RMul(pt.imageY, scaleY))]

\* Where the hotspot marker is drawn, relative to the container.
MarkerPosition(hotspot, pos, s) ==
    [left |-> RAdd(pos.x, RMul(hotspot.imageX, s)),
     top  |-> RAdd(pos.y, RMul(hotspot.imageY, s))]

handleImageClick(e) ==
    /\ PointerOnImage
    /\ LET pt == ToImagePoint(e, position, scale)
       IN  IF activeTab # "retouch" \/ OutsideImage(pt)
           THEN UNCHANGED <<displayHotspot, editHotspot>>
           ELSE /\ displayHotspot' = Some(pt)
                /\ editHotspot' = Some(ToNaturalPixel(pt, Val(currentImage)))
    /\ UNCHANGED <<histVars, prompt, isLoading, error, activeTab, completedCrop,
                   isDrawing, erasePath, erasePathRef, viewVars, pending, nextId>>
    /\ CanvasEffect
    /\ PanelEffect
    /\ UNCHANGED screenVars
    /\ Did("handleImageClick", <<e, displayHotspot' # displayHotspot>>)

(***************************************************************************)
(* Erase gesture on the overlay canvas (mounted in the erase tab while not *)
(* loading; it sits at the container's top-left corner).                   *)
(***************************************************************************)
CanvasPoint(e) == [x |-> e[1] - ContainerLeft, y |-> e[2] - ContainerTop]

handleEraseMouseDown(e) ==
    /\ EraseCanvasShown
    /\ isDrawing' = TRUE
    /\ erasePathRef' = <<CanvasPoint(e)>>
    /\ UNCHANGED <<histVars, prompt, isLoading, error, editHotspot, displayHotspot,
                   activeTab, completedCrop, erasePath, viewVars, pending, nextId>>
    /\ CanvasEffect
    /\ PanelEffect
    /\ UNCHANGED screenVars
    /\ Did("handleEraseMouseDown", <<e>>)

handleEraseMouseMove(e) ==
    /\ EraseCanvasShown
    /\ isDrawing
    /\ erasePathRef' = Append(erasePathRef, CanvasPoint(e))
    /\ UNCHANGED <<histVars, prompt, isLoading, error, editHotspot, displayHotspot,
                   activeTab, completedCrop, isDrawing, erasePath, viewVars, pending, nextId>>
    /\ CanvasEffect
    /\ PanelEffect
    /\ UNCHANGED screenVars
    /\ Did("handleEraseMouseMove", <<e>>)

\* onMouseUp and onMouseLeave of the canvas.
handleEraseMouseUp ==
    /\ EraseCanvasShown
    /\ isDrawing
    /\ isDrawing' = FALSE
    /\ erasePath' = erasePathRef
    /\ UNCHANGED <<histVars, prompt, isLoading, error, editHotspot, displayHotspot,
                   activeTab, completedCrop, erasePathRef, viewVars, pending, nextId>>
    /\ CanvasEffect
    /\ PanelEffect
    /\ UNCHANGED screenVars
    /\ Did("handleEraseMouseUp", <<>>)

\* The ResizeObserver callback of the resize effect, for a canvas the effect has
\* sized: rect is the displayed image's rectangle after the resize.
setCanvasSize(rect) ==
    /\ EraseCanvasShown
    /\ eraseCanvas # Null
    /\ Val(eraseCanvas) # DefaultCanvas
    /\ IF Val(eraseCanvas) # rect
       THEN /\ eraseCanvas' = Some(rect)
            /\ handleClearErase
       ELSE UNCHANGED <<eraseCanvas, erasePath, erasePathRef>>
    /\ UNCHANGED <<histVars, prompt, isLoading, error, editHotspot, displayHotspot,
                   activeTab, completedCrop, isDrawing, viewVars, pending, nextId>>
    /\ PanelEffect
    /\ UNCHANGED screenVars
    /\ Did("setCanvasSize", <<rect>>)

(***************************************************************************)
(* Zoom and pan.                                                           *)
(***************************************************************************)
zoomFactor == <<11, 10>>        \* 1.1
buttonFactor == <<5, 4>>        \* 1.25
MinScale == Int2Rat(1)
MaxScale == Int2Rat(10)

\* Math.max(1, Math.min(newScale, 10))
ClampScale_NoUpperBound(newScale) == RMax(MinScale, newScale)

ClampScale(newScale) == RMax(MinScale, RMin(newScale, MaxScale))

\* The new pan without the ratio of the scales.
Reanchor_NoRatio(anchor, p, newScale, oldScale) ==
    RSub(anchor, RMul(RSub(anchor, p), newScale))

\* anchor - (anchor - p) * (newScale / oldScale)
Reanchor(anchor, p, newScale, oldScale) ==
    RSub(anchor, RMul(RSub(anchor, p), RDiv(newScale, oldScale)))

\* e = <<clientX, clientY>>, deltaY the wheel delta.
handleWheel(e, deltaY) ==
    /\ PointerOnImage
    /\ LET mouseX == Int2Rat(e[1] - ContainerLeft)
           mouseY == Int2Rat(e[2] - ContainerTop)
           newScale == IF deltaY < 0 THEN RMul(scale, zoomFactor) ELSE RDiv(scale, zoomFactor)
           clampedScale == ClampScale(newScale)
       IN  IF activeTab = "erase" \/ activeTab = "crop" \/ clampedScale = scale
           THEN UNCHANGED <<scale, position>>
           ELSE IF RLe(clampedScale, MinScale)
           THEN resetView
           ELSE /\ scale' = clampedScale
                /\ position' = [x |-> Reanchor(mouseX, position.x, clampedScale, scale),
                                y |-> Reanchor(mouseY, position.y, clampedScale, scale)]
    /\ UNCHANGED <<histVars, prompt, isLoading, error, toolVars, activeTab,
                   isPanningRef, panStartRef, pending, nextId>>
    /\ CanvasEffect
    /\ PanelEffect
    /\ UNCHANGED screenVars
    /\ Did("handleWheel", <<e, deltaY, scale' # scale>>)

handlePanMouseDown(e, button) ==
    /\ PointerOnImage
    /\ IF RLt(MinScale, scale) /\ button = 0 /\ activeTab # "erase" /\ activeTab # "crop"
       THEN /\ isPanningRef' = TRUE
            /\ panStartRef' = [x |-> RSub(Int2Rat(e[1]), position.x),
                               y |-> RSub(Int2Rat(e[2]), position.y)]
       ELSE UNCHANGED <<isPanningRef, panStartRef>>
    /\ UNCHANGED <<histVars, prompt, isLoading, error, toolVars, activeTab,
                   scale, position, pending, nextId>>
    /\ CanvasEffect
    /\ PanelEffect
    /\ UNCHANGED screenVars
    /\ Did("handlePanMouseDown", <<>>)

handlePanMouseMove(e) ==
    /\ PointerOnImage
    /\ IF isPanningRef
       THEN position' = [x |-> RSub(Int2Rat(e[1]), panStartRef.x),
                         y |-> RSub(Int2Rat(e[2]), panStartRef.y)]
       ELSE UNCHANGED position
    /\ UNCHANGED <<histVars, prompt, isLoading, error, toolVars, activeTab,
                   scale, isPanningRef, panStartRef, pending, nextId>>
    /\ CanvasEffect
    /\ PanelEffect
    /\ UNCHANGED screenVars
    /\ Did("handlePanMouseMove", <<>>)

\* onMouseUp and onMouseLeave of the container.
handlePanEnd ==
    /\ ImageDisplayShown
    /\ isPanningRef' = FALSE
    /\ UNCHANGED <<histVars, prompt, isLoading, error, toolVars, activeTab,
                   scale, position, panStartRef, pending, nextId>>
    /\ CanvasEffect
    /\ PanelEffect
    /\ UNCHANGED screenVars
    /\ Did("handlePanEnd", <<>>)

\* The zoom buttons are rendered outside the erase and crop tabs.
ZoomControlsShown == PointerOnImage /\ activeTab # "erase" /\ activeTab # "crop"

\* The container's corner taken for its centre.
ViewportCentre_Corner == [x |-> Int2Rat(ContainerW), y |-> Int2Rat(ContainerH)]

ViewportCentre == [x |-> Rat(ContainerW, 2), y |-> Rat(ContainerH, 2)]

handleZoomIn ==
    /\ ZoomControlsShown
    /\ LET newScale == RMin(RMul(scale, buttonFactor), MaxScale)
       IN  /\ scale' = newScale
           /\ position' = [x |-> Reanchor(ViewportCentre.x, position.x, newScale, scale),
                           y |-> Reanchor(ViewportCentre.y, position.y, newScale, scale)]
    /\ UNCHANGED <<histVars, prompt, isLoading, error, toolVars, activeTab,
                   isPanningRef, panStartRef, pending, nextId>>
    /\ CanvasEffect
    /\ PanelEffect
    /\ UNCHANGED screenVars
    /\ Did("handleZoomIn", <<scale' # scale>>)

handleZoomOut ==
    /\ ZoomControlsShown
    /\ LET newScale == RMax(RDiv(scale, buttonFactor), MinScale)
       IN  IF RLe(newScale, MinScale)
           THEN resetView
           ELSE /\ scale' = newScale
                /\ position' = [x |-> Reanchor(ViewportCentre.x, position.x, newScale, scale),
                                y |-> Reanchor(ViewportCentre.y, position.y, newScale, scale)]
    /\ UNCHANGED <<histVars, prompt, isLoading, error, toolVars, activeTab,
                   isPanningRef, panStartRef, pending, nextId>>
    /\ CanvasEffect
    /\ PanelEffect
    /\ UNCHANGED screenVars
    /\ Did("handleZoomOut", <<scale' # scale>>)

\* The percentage button of ZoomControls: onReset = resetView.
handleResetView ==
    /\ ZoomControlsShown
    /\ resetView
    /\ UNCHANGED <<histVars, prompt, isLoading, error, toolVars, activeTab,
                   isPanningRef, panStartRef, pending, nextId>>
    /\ CanvasEffect
    /\ PanelEffect
    /\ UNCHANGED screenVars
    /\ Did("resetView", <<>>)

(***************************************************************************)
(* The image-generation screen, a component with a state of its own.  It   *)
(* renders one of four views: the error, the spinner, the result, the form.*)
(***************************************************************************)
AspectRatios == {"1:1", "16:9", "9:16", "4:3", "3:4"}

\* What generateImageFromPrompt resolves to: a data URL of a PNG, or a URL
\* that dataURLtoFile cannot parse.
GeneratedUrls == {"data:image/png;base64,", "blob:generated"}

\* A chain of early returns that never reaches the result view.
ScreenView_ResultLast ==
    IF GenerateScreen_error # Null THEN "error"
    ELSE IF GenerateScreen_isLoading THEN "loading"
    ELSE "form"

\* The chain of early returns of the render function.
ScreenView ==
    IF GenerateScreen_error # Null THEN "error"
    ELSE IF GenerateScreen_isLoading THEN "loading"
    ELSE IF generatedImageUrl # Null /\ Val(generatedImageUrl) # "" THEN "result"
    ELSE "form"

\* A step of the screen leaves the editor alone and is recorded in last.
ScreenDid(op, arg) ==
    /\ last' = [op |-> op, arg |-> arg]
    /\ UNCHANGED appVars

\* onChange of the textarea.
GenerateScreen_setPrompt(value) ==
    /\ ScreenView = "form"
    /\ GenerateScreen_prompt' = value
    /\ UNCHANGED <<GenerateScreen_isLoading, GenerateScreen_error, generatedImageUrl,
                   activeAspect, GenerateScreen_pending, generationOutcome>>
    /\ ScreenDid("GenerateScreen.setPrompt", <<value>>)

setActiveAspect(name) ==
    /\ ScreenView = "form"
    /\ activeAspect' = name
    /\ UNCHANGED <<GenerateScreen_prompt, GenerateScreen_isLoading, GenerateScreen_error,
                   generatedImageUrl, GenerateScreen_pending, generationOutcome>>
    /\ ScreenDid("setActiveAspect", <<name>>)

\* onSubmit of the form, up to the await.
GenerateScreen_handleGenerate ==
    /\ ScreenView = "form"
    /\ IF Trim(GenerateScreen_prompt) = ""
       THEN /\ GenerateScreen_error' = Some("Please enter a prompt to generate an image.")
            /\ UNCHANGED <<GenerateScreen_isLoading, generatedImageUrl, GenerateScreen_pending>>
       ELSE /\ GenerateScreen_isLoading' = TRUE
            /\ GenerateScreen_error' = Null
            /\ generatedImageUrl' = Null
            /\ GenerateScreen_pending' =
                  Some([prompt |-> GenerateScreen_prompt, aspectRatio |-> activeAspect])
    /\ UNCHANGED <<GenerateScreen_prompt, activeAspect, generationOutcome>>
    /\ ScreenDid("GenerateScreen.handleGenerate", <<GenerateScreen_prompt>>)

\* The awaited promise fulfils: setGeneratedImageUrl, then the finally block.
GenerationFulfilled(imageUrl) ==
    /\ GenerateScreen_pending # Null
    /\ generatedImageUrl' = Some(imageUrl)
    /\ GenerateScreen_isLoading' = FALSE
    /\ GenerateScreen_pending' = Null
    /\ generationOutcome' = "fulfilled"
    /\ UNCHANGED <<GenerateScreen_prompt, GenerateScreen_error, activeAspect>>
    /\ ScreenDid("GenerationFulfilled", <<imageUrl>>)

\* The awaited promise rejects: the catch block, then the finally block.
GenerationRejected ==
    /\ GenerateScreen_pending # Null
    /\ GenerateScreen_error' = Some("Failed to generate the image.")
    /\ GenerateScreen_isLoading' = FALSE
    /\ GenerateScreen_pending' = Null
    /\ generationOutcome' = "rejected"
    /\ UNCHANGED <<GenerateScreen_prompt, generatedImageUrl, activeAspect>>
    /\ ScreenDid("GenerationRejected", <<>>)

\* The "Try Again" button of the screen's error view.
GenerateScreen_clearError ==
    /\ ScreenView = "error"
    /\ GenerateScreen_error' = Null
    /\ UNCHANGED <<GenerateScreen_prompt, GenerateScreen_isLoading, generatedImageUrl,
                   activeAspect, GenerateScreen_pending, generationOutcome>>
    /\ ScreenDid("GenerateScreen.clearError", <<>>)

\* "Edit this Image": the file made from the URL goes to onImageGenerated;
\* when dataURLtoFile throws, nothing is handed over.
handleEdit ==
    /\ ScreenView = "result"
    /\ UNCHANGED screenVars
    /\ ScreenDid("handleEdit",
                 IF /\ generatedImageUrl # Null /\ Val(generatedImageUrl) # ""
                    /\ dataURLParses(Val(generatedImageUrl))
                 THEN <<Val(generatedImageUrl)>> ELSE <<>>)

handleGenerateAnother ==
    /\ ScreenView = "result"
    /\ generatedImageUrl' = Null
    /\ GenerateScreen_error' = Null
    /\ UNCHANGED <<GenerateScreen_prompt, GenerateScreen_isLoading, activeAspect,
                   GenerateScreen_pending, generationOutcome>>
    /\ ScreenDid("handleGenerateAnother", <<>>)

NextGenerate ==
    \/ \E v \in Prompts : GenerateScreen_setPrompt(v)
    \/ \E a \in AspectRatios : setActiveAspect(a)
    \/ GenerateScreen_handleGenerate
    \/ \E u \in GeneratedUrls : GenerationFulfilled(u)
    \/ GenerationRejected
    \/ GenerateScreen_clearError
    \/ handleEdit
    \/ handleGenerateAnother

(***************************************************************************)
(* The editor: every handler that edits the session, without zoom and pan. *)
(***************************************************************************)
Init ==
    /\ history = <<>>
    /\ historyIndex = -1
    /\ prompt = ""
    /\ isLoading = FALSE
    /\ error = Null
    /\ editHotspot = Null
    /\ displayHotspot = Null
    /\ activeTab = "retouch"
    /\ completedCrop = Null
    /\ isDrawing = FALSE
    /\ erasePath = <<>>
    /\ erasePathRef = <<>>
    /\ scale = Int2Rat(1)
    /\ position = ZeroPos
    /\ isPanningRef = FALSE
    /\ panStartRef = ZeroPos
    /\ pending = Null
    /\ nextId = 1
    /\ last = [op |-> "init", arg |-> <<>>]
    /\ script = ScriptOff
    /\ eraseCanvas = Null
    /\ lastTransform = Null
    /\ selectedPresetPrompt = Null
    /\ customPrompt = ""
    /\ activeOptions = Null
    /\ GenerateScreen_prompt = ""
    /\ GenerateScreen_isLoading = FALSE
    /\ GenerateScreen_error = Null
    /\ generatedImageUrl = Null
    /\ activeAspect = "1:1"
    /\ GenerateScreen_pending = Null
    /\ generationOutcome = "none"

\* Inputs of the editor model.
EditorPrompts == {"", "make it blue"}
EditorPoints == {<<5, 3>>, <<11, 3>>}
ErasePoints == {<<5, 3>>}
EditorDims == {<<6, 2>>}
EditorTransformations == {"rotate-left", "flip-horizontal"}

Upload(maxFiles, dims) ==
    /\ nextId <= maxFiles
    /\ \E d \in dims : handleImageUpload(File(nextId, d[1], d[2]))

Fulfil(maxFiles) ==
    /\ nextId <= maxFiles
    /\ pending # Null
    /\ \E d \in ResultDims(Val(pending)) : RequestFulfilled(d)

CropOn(maxFiles, ratios) ==
    /\ completedCrop # Null => nextId <= maxFiles
    /\ \E devicePixelRatio \in ratios : handleApplyCrop(devicePixelRatio)

EditorRatios == {2}

Crop(maxFiles) == CropOn(maxFiles, EditorRatios)

Next ==
    \/ Upload(MaxFiles, EditorDims)
    \/ handleUploadNew
    \/ \E t \in Tabs : handleTabChange(t)
    \/ clearError
    \/ handleUndo
    \/ handleRedo
    \/ handleReset
    \/ \E v \in EditorPrompts : setPrompt(v)
    \/ \E e \in EditorPoints : handleImageClick(e)
    \/ handleGenerate
    \/ \E e \in ErasePoints : handleEraseMouseDown(e)
    \/ \E e \in ErasePoints : Len(erasePathRef) < MaxPath /\ handleEraseMouseMove(e)
    \/ handleEraseMouseUp
    \/ handleApplyErase
    \/ handleApplyFilter
    \/ handleAutoAdjust
    \/ \E t \in EditorTransformations : handleTransform(t)
    \/ \E c \in CropRects : setCompletedCrop(c)
    \/ Crop(MaxFiles)
    \/ Fulfil(MaxFiles)
    \/ RequestRejected

Spec == Init /\ [][Next]_vars

(***************************************************************************)
(* The view.  Zoom and pan take the scale and the pan position through an  *)
(* unbounded set of rationals, so the view models let a zoom or drag step  *)
(* happen only when its result stays within a range.                       *)
(***************************************************************************)
\* Inputs of the view models.
ViewPoints == {<<1, 1>>, <<5, 3>>}
WheelDeltas == {-100, 100}
Buttons == {0, 2}
ViewTabs == {"retouch", "crop"}
ViewDims == {<<6, 2>>}

\* Scale and pan have denominators up to den, and |pan| is at most mag.
ViewWithin(den, mag) ==
    /\ scale[2] <= den
    /\ position.x[2] <= den
    /\ position.y[2] <= den
    /\ RLe(RAbs(position.x), Int2Rat(mag))
    /\ RLe(RAbs(position.y), Int2Rat(mag))

Wheel(den, mag) ==
    \E e \in ViewPoints, deltaY \in WheelDeltas :
        handleWheel(e, deltaY) /\ ViewWithin(den, mag)'

ZoomIn(den, mag) == handleZoomIn /\ ViewWithin(den, mag)'

ZoomOut(den, mag) == handleZoomOut /\ ViewWithin(den, mag)'

PanDown == \E e \in ViewPoints, b \in Buttons : handlePanMouseDown(e, b)

PanMove(den, mag) ==
    \E e \in ViewPoints : handlePanMouseMove(e) /\ ViewWithin(den, mag)'

(***************************************************************************)
(* Zoom: the wheel and the zoom buttons over the whole range of the scale. *)
(***************************************************************************)
NextZoom ==
    \/ Upload(MaxFilesZoom, ViewDims)
    \/ \E t \in ViewTabs : handleTabChange(t)
    \/ Wheel(MaxWheelDen, MaxPos)
    \/ ZoomIn(MaxDen, MaxPos)
    \/ ZoomOut(MaxDen, MaxPos)
    \/ handleResetView

SpecZoom == Init /\ [][NextZoom]_vars

(***************************************************************************)
(* Pan: drags interleaved with zoom steps near scale 1, with the reset     *)
(* button and with tab changes.                                            *)
(***************************************************************************)
NextPan ==
    \/ Upload(MaxFilesZoom, ViewDims)
    \/ \E t \in ViewTabs : handleTabChange(t)
    \/ Wheel(MaxPanDen, MaxPan)
    \/ ZoomIn(MaxPanDen, MaxPan)
    \/ ZoomOut(MaxPanDen, MaxPan)
    \/ handleResetView
    \/ PanDown
    \/ PanMove(MaxPanDen, MaxPan)
    \/ handlePanEnd

SpecPan == Init /\ [][NextPan]_vars

(***************************************************************************)
(* Tabs: tab changes from a zoomed view with a hotspot, an erase path or a *)
(* crop selection.                                                         *)
(***************************************************************************)
ToolTabs == {"retouch", "erase", "crop"}

NextTab ==
    \/ Upload(MaxFilesZoom, ViewDims)
    \/ \E t \in ToolTabs : handleTabChange(t)
    \/ \E e \in ClientPoints : handleImageClick(e)
    \/ Wheel(MaxClickDen, MaxClickPan)
    \/ ZoomIn(MaxClickDen, MaxClickPan)
    \/ ZoomOut(MaxClickDen, MaxClickPan)
    \/ \E e \in ErasePoints : handleEraseMouseDown(e)
    \/ \E e \in ErasePoints : Len(erasePathRef) < MaxPath /\ handleEraseMouseMove(e)
    \/ handleEraseMouseUp
    \/ \E c \in CropRects : setCompletedCrop(c)

SpecTab == Init /\ [][NextTab]_vars

(***************************************************************************)
(* Click: retouch clicks on a zoomed and panned image.                     *)
(***************************************************************************)
ClickTabs == {"retouch", "filters"}

NextClick ==
    \/ Upload(MaxFilesZoom, Dims)
    \/ \E t \in ClickTabs : handleTabChange(t)
    \/ \E e \in ClientPoints : handleImageClick(e)
    \/ Wheel(MaxClickDen, MaxClickPan)
    \/ ZoomIn(MaxClickDen, MaxClickPan)
    \/ ZoomOut(MaxClickDen, MaxClickPan)
    \/ handleResetView

SpecClick == Init /\ [][NextClick]_vars

(***************************************************************************)
(* Erase: gestures on canvases of several sizes, and the erase request.    *)
(***************************************************************************)
EraseTabs == {"retouch", "erase"}
GesturePoints == {<<5, 3>>, <<3, 2>>}

NextErase ==
    \/ Upload(MaxFilesTool, Dims)
    \/ \E t \in EraseTabs : handleTabChange(t)
    \/ \E e \in GesturePoints : handleEraseMouseDown(e)
    \/ \E e \in GesturePoints : Len(erasePathRef) < MaxPath /\ handleEraseMouseMove(e)
    \/ handleEraseMouseUp
    \/ \E rect \in CanvasSizes : setCanvasSize(rect)
    \/ handleApplyErase
    \/ Fulfil(MaxFilesTool)
    \/ RequestRejected
    \/ clearError

SpecErase == Init /\ [][NextErase]_vars

(***************************************************************************)
(* Transform: rotations and flips applied one after another.               *)
(***************************************************************************)
TransformTabs == {"retouch", "transform"}

NextTransform ==
    \/ Upload(MaxFilesTransform, Dims)
    \/ \E t \in TransformTabs : handleTabChange(t)
    \/ \E t \in Transformations : handleTransform(t)
    \/ Fulfil(MaxFilesTransform)
    \/ RequestRejected
    \/ clearError
    \/ handleUndo
    \/ handleRedo

SpecTransform == Init /\ [][NextTransform]_vars

(***************************************************************************)
(* Crop: selections of several shapes, applied at several pixel ratios.    *)
(***************************************************************************)
CropTabs == {"retouch", "crop"}
\* Selections ReactCrop can complete: a drag along one axis gives a selection
\* without height.
CropSelections == {[x |-> 1, y |-> 1, width |-> 3, height |-> 2],
                   [x |-> 0, y |-> 2, width |-> 8, height |-> 1],
                   [x |-> 2, y |-> 1, width |-> 4, height |-> 0]}
\* window.devicePixelRatio: undefined (0), 1 or 2.
DeviceRatios == {0, 1, 2}

NextCrop ==
    \/ Upload(MaxFilesTool, Dims)
    \/ \E t \in CropTabs : handleTabChange(t)
    \/ \E c \in CropSelections : setCompletedCrop(c)
    \/ CropOn(MaxFilesTool, DeviceRatios)
    \/ clearError
    \/ handleUndo
    \/ handleRedo

SpecCrop == Init /\ [][NextCrop]_vars

(***************************************************************************)
(* Loading: every kind of request, started and settled.  The service call  *)
(* and the image load are assumed to settle: a request that is in flight   *)
(* is eventually fulfilled or rejected.                                    *)
(***************************************************************************)
LoadingPrompts == {"make it blue"}
LoadingPoints == {<<5, 3>>}

Settle == Fulfil(MaxFilesTool) \/ RequestRejected

NextLoading ==
    \/ Upload(MaxFilesTool, EditorDims)
    \/ handleUploadNew
    \/ \E t \in Tabs : handleTabChange(t)
    \/ clearError
    \/ handleUndo
    \/ handleRedo
    \/ \E v \in LoadingPrompts : setPrompt(v)
    \/ \E e \in LoadingPoints : handleImageClick(e)
    \/ handleGenerate
    \/ \E e \in LoadingPoints : handleEraseMouseDown(e)
    \/ \E e \in LoadingPoints : Len(erasePathRef) < MaxPath /\ handleEraseMouseMove(e)
    \/ handleEraseMouseUp
    \/ handleApplyErase
    \/ handleApplyFilter
    \/ handleAutoAdjust
    \/ \E t \in EditorTransformations : handleTransform(t)
    \/ Settle

SpecLoading == Init /\ [][NextLoading]_vars /\ WF_vars(Settle)

(***************************************************************************)
(* Retouch: prompts, hotspots and the generate request.                    *)
(***************************************************************************)
RetouchTabs == {"retouch", "filters"}

NextRetouch ==
    \/ Upload(MaxFilesTool, Dims)
    \/ \E t \in RetouchTabs : handleTabChange(t)
    \/ \E v \in Prompts : setPrompt(v)
    \/ \E e \in ClientPoints : handleImageClick(e)
    \/ handleGenerate
    \/ Fulfil(MaxFilesTool)
    \/ RequestRejected
    \/ clearError

SpecRetouch == Init /\ [][NextRetouch]_vars

(***************************************************************************)
(* Generate: the image-generation screen on its own.                       *)
(***************************************************************************)
SpecGenerate == Init /\ [][NextGenerate]_vars

(***************************************************************************)
(* Adjust: the adjustment panel's presets, text input and buttons, with    *)
(* requests that settle and tab changes that unmount the panel.            *)
(***************************************************************************)
AdjustTabs == {"adjust", "retouch"}
PanelOptions == {"beautify", "contrast"}

NextAdjust ==
    \/ Upload(MaxFilesZoom, ViewDims)
    \/ \E t \in AdjustTabs : handleTabChange(t)
    \/ \E o \in PanelOptions : handleOptionToggle(o)
    \/ \E p \in PresetPrompts : handlePresetClick(p)
    \/ \E v \in Prompts : handleCustomChange(v)
    \/ handleApply
    \/ handleAutoAdjust
    \/ Fulfil(MaxFilesTool)
    \/ RequestRejected
    \/ clearError

SpecAdjust == Init /\ [][NextAdjust]_vars

(***************************************************************************)
(* Properties of the edit history.                                         *)
(***************************************************************************)
\* A step that appended a snapshot; the new File is last'.arg[1].
AppendStep == last'.op = "addImageToHistory" /\ nextId' # nextId

\* C1: whenever a snapshot is appended while the current position is not the
\* last entry, the entries after the position current at that moment are
\* discarded first, the new snapshot becomes the last entry and historyIndex
\* points at it.
C1_AppendDiscardsFuture ==
    [][(AppendStep /\ historyIndex < Len(history) - 1) =>
          /\ history' = Append(SubSeq(history, 1, historyIndex + 1), last'.arg[1])
          /\ historyIndex' = Len(history') - 1]_vars

\* C2: after an upload followed by N completed edits, N undos show the uploaded
\* snapshot again at historyIndex 0, and N redos then show the N edited
\* snapshots in the order they were made, ending on the latest one.
C2_UndoRedoReplay ==
    /\ (script.phase \in {"edits", "undos"} /\ script.undone = Len(script.made)) =>
          /\ historyIndex = 0
          /\ currentImage = script.original
    /\ script.phase = "redos" =>
          /\ script.visited = SubSeq(script.made, 1, Len(script.visited))
          /\ currentImage = Some(script.visited[Len(script.visited)])
          /\ (Len(script.visited) = Len(script.made) =>
                 /\ historyIndex = Len(history) - 1
                 /\ currentImage = Some(script.made[Len(script.made)]))

\* Two edits were made, undone, and both redone.
C2_Witness ==
    /\ script.phase = "redos"
    /\ Len(script.made) = 2
    /\ Len(script.visited) = 2

\* C3: undo lowers historyIndex by exactly 1 when it is above 0 and otherwise
\* does nothing, redo raises it by exactly 1 when it is below the last index and
\* otherwise does nothing, and undo, redo and reset leave the history sequence
\* as it is.
C3_UndoRedoResetMovePointerOnly ==
    [][/\ last'.op = "handleUndo" =>
             /\ history' = history
             /\ historyIndex' = IF historyIndex > 0 THEN historyIndex - 1 ELSE historyIndex
       /\ last'.op = "handleRedo" =>
             /\ history' = history
             /\ historyIndex' = IF historyIndex < Len(history) - 1
                                THEN historyIndex + 1 ELSE historyIndex
       /\ last'.op = "handleReset" => history' = history]_vars

\* An undo from the last of three snapshots has just run.
C3_Witness ==
    /\ last.op = "handleUndo"
    /\ last.arg[1] = 2
    /\ Len(history) = 3
    /\ historyIndex = 1

\* C4: a reset with a non-empty history sets historyIndex to 0, clears the
\* error and keeps every history entry, so all edits lie ahead of the pointer
\* for redo; with an empty history it changes nothing.
C4_ResetJumpsToOriginal ==
    [][last'.op = "handleReset" =>
          IF Len(history) > 0
          THEN /\ historyIndex' = 0
               /\ error' = Null
               /\ history' = history
               /\ currentImage' = Some(history[1])
               /\ canRedo' = (Len(history) > 1)
          ELSE UNCHANGED <<history, historyIndex, error>>]_vars

\* A reset has just run at the last of three snapshots while an error was shown.
C4_Witness ==
    /\ last.op = "handleReset"
    /\ last.arg = <<2, TRUE>>
    /\ Len(history) = 3
    /\ historyIndex = 0
    /\ error = Null

(***************************************************************************)
(* Properties of zoom and pan.                                             *)
(***************************************************************************)
ScaleInRange(s) == RLe(Int2Rat(1), s) /\ RLe(s, Int2Rat(10))

WheelActs == activeTab # "erase" /\ activeTab # "crop"

\* C5: the zoom scale always lies between 1 and 10; a wheel-in or zoom-in
\* step whose factor would take it above 10 leaves it at exactly 10, and a
\* wheel-out or zoom-out step whose factor would take it below 1 leaves it at
\* exactly 1.
C5_ScaleClamped ==
    [][/\ ScaleInRange(scale) /\ ScaleInRange(scale')
       /\ (/\ last'.op = "handleWheel" /\ last'.arg[2] < 0 /\ WheelActs
           /\ RLt(Int2Rat(10), RMul(scale, Rat(11, 10))))
             => scale' = Int2Rat(10)
       /\ (last'.op = "handleZoomIn" /\ RLt(Int2Rat(10), RMul(scale, Rat(5, 4))))
             => scale' = Int2Rat(10)
       /\ (/\ last'.op = "handleWheel" /\ last'.arg[2] >= 0 /\ WheelActs
           /\ RLt(RDiv(scale, Rat(11, 10)), Int2Rat(1)))
             => scale' = Int2Rat(1)
       /\ (last'.op = "handleZoomOut" /\ RLt(RDiv(scale, Rat(5, 4)), Int2Rat(1)))
             => scale' = Int2Rat(1)]_vars

\* A wheel-in step has just brought the scale up to the limit of 10.
C5_Witness ==
    /\ last.op = "handleWheel" /\ last.arg[2] < 0 /\ last.arg[3]
    /\ scale = Int2Rat(10)

\* C6: whenever the scale is 1 the pan offset is (0,0).
C6_ScaleOneMeansOrigin == scale = Int2Rat(1) => position = ZeroPos

WheelChangedScale == last'.op = "handleWheel" /\ last'.arg[3]

\* C7 (as stated): every wheel zoom that changes the scale keeps the image
\* point under the cursor fixed.
C7_WheelKeepsCursorPoint_AnyScale ==
    [][WheelChangedScale =>
          ToImagePoint(last'.arg[1], position', scale')
              = ToImagePoint(last'.arg[1], position, scale)]_vars

\* C7 (amended): every wheel zoom that changes the scale to a value above 1
\* keeps the image point under the cursor fixed; a wheel zoom that brings the
\* scale down to 1 resets the pan to (0,0) instead.
C7_WheelKeepsCursorPoint ==
    [][WheelChangedScale =>
          IF RLt(Int2Rat(1), scale')
          THEN ToImagePoint(last'.arg[1], position', scale')
                   = ToImagePoint(last'.arg[1], position, scale)
          ELSE scale' = Int2Rat(1) /\ position' = ZeroPos]_vars

\* A wheel zoom during a drag has changed the scale of a panned image.
C7_Witness ==
    /\ last.op = "handleWheel" /\ last.arg[3]
    /\ RLt(Int2Rat(1), scale)
    /\ isPanningRef
    /\ position # ZeroPos

\* The image point shown at the centre of the container.
CentrePoint(pos, s) ==
    [imageX |-> RDiv(RSub(Rat(ContainerW, 2), pos.x), s),
     imageY |-> RDiv(RSub(Rat(ContainerH, 2), pos.y), s)]

ButtonChangedScale ==
    last'.op \in {"handleZoomIn", "handleZoomOut"} /\ last'.arg[1]

\* C8 (as stated): every zoom-in or zoom-out button step that changes the
\* scale keeps the image point at the centre of the container fixed.
C8_ButtonsKeepCentre_AnyScale ==
    [][ButtonChangedScale =>
          CentrePoint(position', scale') = CentrePoint(position, scale)]_vars

\* C8 (amended): every zoom-in or zoom-out button step that changes the scale
\* to a value above 1 keeps the image point at the centre of the container
\* fixed; a zoom-out step that brings the scale down to 1 resets the pan to
\* (0,0) instead.
C8_ButtonsKeepCentre ==
    [][ButtonChangedScale =>
          IF RLt(Int2Rat(1), scale')
          THEN CentrePoint(position', scale') = CentrePoint(position, scale)
          ELSE scale' = Int2Rat(1) /\ position' = ZeroPos]_vars

\* A zoom-out step has left the scale above 1 on a view that is not centred.
C8_Witness ==
    /\ last.op = "handleZoomOut" /\ last.arg[1]
    /\ RLt(Int2Rat(1), scale)
    /\ CentrePoint(position, scale) # CentrePoint(ZeroPos, Int2Rat(1))

(***************************************************************************)
(* Properties of the retouch click.                                        *)
(***************************************************************************)
\* The click at client point e maps outside the displayed image.
ClickOutside(e, pos, s) ==
    LET ix == RDiv(RSub(Int2Rat(e[1] - ContainerLeft), pos.x), s)
        iy == RDiv(RSub(Int2Rat(e[2] - ContainerTop), pos.y), s)
    IN  \/ RLt(ix, Int2Rat(0)) \/ RLt(Int2Rat(ContainerW), ix)
        \/ RLt(iy, Int2Rat(0)) \/ RLt(Int2Rat(ContainerH), iy)

\* C9: a click that maps outside the displayed image, or that happens in a
\* tab other than retouch, changes nothing: both hotspots keep their values.
C9_RejectedClickIsNoOp ==
    [][(/\ last'.op = "handleImageClick"
        /\ (activeTab # "retouch" \/ ClickOutside(last'.arg[1], position, scale)))
          => UNCHANGED <<editHotspot, displayHotspot, histVars, prompt,
                         isLoading, error, activeTab, viewVars>>]_vars

\* A click outside a zoomed image has left an earlier hotspot in place.
C9_Witness ==
    /\ last.op = "handleImageClick" /\ ~last.arg[2]
    /\ activeTab = "retouch"
    /\ ClickOutside(last.arg[1], position, scale)
    /\ RLt(Int2Rat(1), scale)
    /\ displayHotspot # Null /\ editHotspot # Null

\* The natural pixel h lies within half a natural pixel of the displayed
\* coordinate d, for an image of natural size n shown at size shown.
HalfPixel(h, d, n, shown) ==
    RLe(RAbs(RSub(RMul(Int2Rat(h), Rat(shown, n)), d)), Rat(shown, 2 * n))

\* C10: an accepted click at container point (mx, my) stores a display hotspot
\* whose marker is drawn at (mx, my), and a natural-pixel hotspot that maps
\* back to the display hotspot within half a natural pixel.
C10_ClickMappingInvertible ==
    [][(/\ last'.op = "handleImageClick"
        /\ activeTab = "retouch"
        /\ ~ClickOutside(last'.arg[1], position, scale))
          => /\ displayHotspot' # Null /\ editHotspot' # Null
             /\ MarkerPosition(Val(displayHotspot'), position', scale')
                  = [left |-> Int2Rat(last'.arg[1][1] - ContainerLeft),
                     top  |-> Int2Rat(last'.arg[1][2] - ContainerTop)]
             /\ HalfPixel(Val(editHotspot').x, Val(displayHotspot').imageX,
                          Val(currentImage).w, ContainerW)
             /\ HalfPixel(Val(editHotspot').y, Val(displayHotspot').imageY,
                          Val(currentImage).h, ContainerH)]_vars

\* An accepted click on a zoomed, panned image whose natural coordinate had
\* to be rounded.
C10_Witness ==
    /\ last.op = "handleImageClick" /\ last.arg[2]
    /\ RLt(Int2Rat(1), scale) /\ position # ZeroPos
    /\ editHotspot # Null /\ displayHotspot # Null
    /\ RMul(Val(displayHotspot).imageX, Rat(Val(currentImage).w, ContainerW))
         # Int2Rat(Val(editHotspot).x)

(***************************************************************************)
(* Properties of the erase request.                                        *)
(***************************************************************************)
EraseSent == last'.op = "handleApplyErase" /\ pending' # Null

\* C11: the mask canvas of every erase request that is sent has the natural
\* width and height of the displayed image, whatever the size of the
\* on-screen erase canvas.
C11_MaskHasNaturalSize ==
    [][EraseSent =>
          /\ Val(pending').arg[1].width = Val(currentImage).w
          /\ Val(pending').arg[1].height = Val(currentImage).h]_vars

\* An erase request was sent from a canvas smaller than the container, for an
\* image whose natural size is neither the canvas's nor the container's.
C11_Witness ==
    /\ last.op = "handleApplyErase" /\ pending # Null
    /\ Val(pending).image.w = 6
    /\ Val(pending).arg[1].width = 6 /\ Val(pending).arg[1].height = 2
    /\ Val(pending).arg[1].lineWidth = Int2Rat(45)

\* r is the rational num / den.
IsRatio(r, num, den) == r[2] > 0 /\ r[1] * den = num * r[2]

\* C20: the mask of every erase request that is sent is the polyline of the
\* recorded points, each (x,y) drawn at (x*naturalWidth/canvasWidth,
\* y*naturalHeight/canvasHeight) in recording order, on a black background,
\* with a white stroke of width 30*naturalWidth/canvasWidth and round caps
\* and joins.
C20_MaskPolyline ==
    [][EraseSent =>
          LET mask == Val(pending').arg[1]
              W    == Val(currentImage).w
              H    == Val(currentImage).h
              cw   == Val(eraseCanvas).width
              ch   == Val(eraseCanvas).height
          IN  /\ Len(mask.points) = Len(erasePathRef)
              /\ \A i \in 1..Len(erasePathRef) :
                    /\ IsRatio(mask.points[i].x, erasePathRef[i].x * W, cw)
                    /\ IsRatio(mask.points[i].y, erasePathRef[i].y * H, ch)
              /\ mask.fillStyle = "black"
              /\ mask.strokeStyle = "white"
              /\ IsRatio(mask.lineWidth, 30 * W, cw)
              /\ mask.lineCap = "round" /\ mask.lineJoin = "round"]_vars

\* The gesture (2,1), (4,2) on an 8x4 canvas over a 6x2 image: the factors
\* are 3/4 across and 1/2 down.
C20_Witness ==
    /\ last.op = "handleApplyErase" /\ pending # Null
    /\ Val(pending).image.w = 6 /\ Val(pending).image.h = 2
    /\ Val(pending).arg[1].lineWidth = <<45, 2>>
    /\ Val(pending).arg[1].points =
          <<[x |-> <<3, 2>>, y |-> <<1, 2>>], [x |-> <<3, 1>>, y |-> <<1, 1>>]>>

(***************************************************************************)
(* Properties of the transforms.                                           *)
(***************************************************************************)
TransformDone == last'.op = "addImageToHistory" /\ last'.arg[2] = "transform"

Rotations == {"rotate-left", "rotate-right"}

\* C12: a rotation of a source of size (w,h) makes a snapshot of size (h,w)
\* and a flip one of size (w,h); a rotate-left applied to the result of a
\* rotate-right, or the other way round, makes a snapshot with the size of
\* the first source.
C12_TransformDimensions ==
    [][TransformDone =>
          LET req == Val(pending)
              made == last'.arg[1]
          IN  /\ req.arg[1] \in Rotations
                   => made.w = req.image.h /\ made.h = req.image.w
              /\ req.arg[1] \notin Rotations
                   => made.w = req.image.w /\ made.h = req.image.h
              /\ (/\ lastTransform # Null
                  /\ Val(lastTransform).file = req.image
                  /\ {Val(lastTransform).by, req.arg[1]} = Rotations)
                   => <<made.w, made.h>> = Val(lastTransform).from]_vars

\* A rotate-right of the result of a rotate-left has just been added, on an
\* image that is not square.
C12_Witness ==
    /\ last.op = "addImageToHistory" /\ last.arg[2] = "transform"
    /\ lastTransform # Null
    /\ Val(lastTransform).by = "rotate-right"
    /\ Val(lastTransform).after = "rotate-left"
    /\ Val(lastTransform).from[1] # Val(lastTransform).from[2]
    /\ Len(history) = 3 /\ historyIndex = 2
    /\ history[3].w = history[1].w /\ history[3].h = history[1].h

(***************************************************************************)
(* Properties of the crop.                                                 *)
(***************************************************************************)
CropApplied ==
    \/ last'.op = "handleApplyCrop"
    \/ last'.op = "addImageToHistory" /\ last'.arg[2] = "crop"

\* C13: applying a crop with a completed selection (x, y, cw, ch) on an image
\* of natural size (W, H) shown at (w, h) reads the source rectangle
\* (x*W/w, y*H/h, cw*W/w, ch*H/h), writes a canvas of size (cw*dpr, ch*dpr)
\* with dpr the device pixel ratio or 1, and appends the result as one new
\* snapshot; without a selection it sets the error "Please select an area to
\* crop." and leaves the history as it is.
C13_CropExtraction ==
    [][CropApplied =>
          IF completedCrop # Null
          THEN LET c == Val(completedCrop)
                   W == Val(currentImage).w
                   H == Val(currentImage).h
                   made == last'.arg[1]
                   read == last'.arg[4]
                   dpr == IF last'.arg[5] = 0 THEN 1 ELSE last'.arg[5]
               IN  /\ last'.op = "addImageToHistory"
                   /\ read.sx = RDiv(Int2Rat(c.x * W), Int2Rat(ContainerW))
                   /\ read.sy = RDiv(Int2Rat(c.y * H), Int2Rat(ContainerH))
                   /\ read.sw = RDiv(Int2Rat(c.width * W), Int2Rat(ContainerW))
                   /\ read.sh = RDiv(Int2Rat(c.height * H), Int2Rat(ContainerH))
                   /\ made.w = c.width * dpr /\ made.h = c.height * dpr
                   /\ history' = Append(SubSeq(history, 1, historyIndex + 1), made)
                   /\ historyIndex' = historyIndex + 1
          ELSE /\ error' = Some("Please select an area to crop.")
               /\ UNCHANGED histVars]_vars

C15_LoadingWhileInFlight ==
    /\ [](isLoading <=> pending # Null)
    /\ (isLoading ~> ~isLoading)

\* A retouch request was in flight and has been fulfilled.
C15_Witness ==
    /\ last.op = "addImageToHistory" /\ last.arg[2] = "retouch"
    /\ ~isLoading /\ pending = Null

(***************************************************************************)
(* Properties of the guards.                                               *)
(***************************************************************************)
\* The handler only reported the error message m.
Refused(m) ==
    /\ error' = Some(m)
    /\ pending' = pending /\ pending' = Null
    /\ isLoading' = isLoading /\ ~isLoading'
    /\ UNCHANGED histVars

\* C16: a generate is sent only with a current image, a prompt that is not
\* blank and an edit hotspot; when one of them is missing, the first that is
\* missing in that order decides the error message, no request is issued,
\* isLoading is not set and the history is left as it is.
C16_GenerateGuards ==
    [][last'.op = "handleGenerate" =>
          IF currentImage = Null
          THEN Refused("No image loaded to edit.")
          ELSE IF prompt \in {"", " "}
          THEN Refused("Please enter a description for your edit.")
          ELSE IF editHotspot = Null
          THEN Refused("Please click on the image to select an area to edit.")
          ELSE /\ pending' # Null
               /\ Val(pending').kind = "retouch"
               /\ Val(pending').image = Val(currentImage)
               /\ Val(pending').arg = <<prompt, Val(editHotspot)>>
               /\ isLoading' /\ error' = Null
               /\ UNCHANGED histVars]_vars

\* A generate with a hotspot and a prompt of one space was refused.
C16_Witness ==
    /\ last.op = "handleGenerate"
    /\ prompt = " " /\ editHotspot # Null
    /\ error = Some("Please enter a description for your edit.")
    /\ ~isLoading /\ pending = Null

\* C17: applying an erase with fewer than 2 recorded points, or without a
\* current image, sets the error "Please draw on the image to select an area
\* to erase.", issues no request, does not set isLoading, and leaves the
\* history and the erase path as they are.
C17_EraseGuard ==
    [][(/\ last'.op = "handleApplyErase"
        /\ (currentImage = Null \/ Len(erasePathRef) < 2))
          => /\ Refused("Please draw on the image to select an area to erase.")
             /\ UNCHANGED <<erasePath, erasePathRef>>]_vars

\* An erase with a path of one point was refused.
C17_Witness ==
    /\ last.op = "handleApplyErase"
    /\ Len(erasePathRef) = 1 /\ Len(erasePath) = 1
    /\ error = Some("Please draw on the image to select an area to erase.")
    /\ ~isLoading /\ pending = Null

\* C18: an upload replaces the whole session: the history is the uploaded
\* file alone at index 0, the tab is retouch, the error is cleared, both
\* hotspots, the crop selection and the erase path are cleared, the view is
\* at scale 1 with pan (0,0), and neither undo nor redo is possible.
C18_UploadReplacesSession ==
    [][last'.op = "handleImageUpload"
         => /\ history' = <<last'.arg[1]>>
            /\ historyIndex' = 0
            /\ currentImage' = Some(last'.arg[1])
            /\ activeTab' = "retouch"
            /\ error' = Null
            /\ editHotspot' = Null /\ displayHotspot' = Null
            /\ completedCrop' = Null
            /\ erasePath' = <<>> /\ erasePathRef' = <<>>
            /\ scale' = <<1, 1>> /\ position' = [x |-> <<0, 1>>, y |-> <<0, 1>>]
            /\ ~canUndo' /\ ~canRedo']_vars

\* A second upload, made after "Upload New" while an edit request was still
\* in flight.
C18_Witness ==
    /\ last.op = "handleImageUpload"
    /\ last.arg[1].id > 1
    /\ history = <<last.arg[1]>> /\ historyIndex = 0
    /\ activeTab = "retouch" /\ completedCrop = Null
    /\ isLoading /\ pending # Null

\* C19: a change to a different tab resets the view to scale 1 and pan
\* (0,0) and clears both hotspots, the erase path and the crop selection,
\* leaving the history alone; choosing the tab already active changes
\* nothing.
C19_TabChangeResets ==
    [][last'.op = "handleTabChange"
         => IF last'.arg[1]
            THEN /\ activeTab' # activeTab
                 /\ scale' = <<1, 1>> /\ position' = [x |-> <<0, 1>>, y |-> <<0, 1>>]
                 /\ editHotspot' = Null /\ displayHotspot' = Null
                 /\ erasePath' = <<>> /\ erasePathRef' = <<>>
                 /\ completedCrop' = Null
                 /\ UNCHANGED <<history, historyIndex>>
            ELSE UNCHANGED <<activeTab, scale, position, editHotspot, displayHotspot,
                             erasePath, erasePathRef, completedCrop, eraseCanvas,
                             history, historyIndex, prompt, isLoading, error>>]_vars

\* The erase tab was left for the crop tab.
C19_Witness ==
    /\ last.op = "handleTabChange" /\ last.arg[1]
    /\ activeTab = "crop"
    /\ eraseCanvas = Null
    /\ scale = <<1, 1>> /\ erasePathRef = <<>> /\ completedCrop = Null
    /\ Len(history) = 1

(***************************************************************************)
(* Properties of the adjustment panel.                                     *)
(***************************************************************************)
PresetChosen == selectedPresetPrompt # Null /\ Val(selectedPresetPrompt) # ""

\* C21: in the adjustment panel at most one of selectedPresetPrompt and
\* customPrompt is non-empty in every reachable state (a preset click empties
\* the custom prompt, typing clears the preset), and every click on Apply
\* passes to onApplyAdjustment exactly the non-empty one, which is never
\* empty or whitespace-only.
C21_PresetXorCustom ==
    /\ [](~(PresetChosen /\ customPrompt # ""))
    /\ [][last'.op = "handlePresetClick"
            => selectedPresetPrompt' = Some(last'.arg[1]) /\ customPrompt' = ""]_vars
    /\ [][last'.op = "handleCustomChange"
            => selectedPresetPrompt' = Null /\ customPrompt' = last'.arg[1]]_vars
    /\ [][last'.op = "handleApply"
            => /\ pending' # Null
               /\ Val(pending').kind = "adjust"
               /\ Val(pending').arg[1] \notin {"", " "}
               /\ Val(pending').arg[1] =
                     IF PresetChosen THEN Val(selectedPresetPrompt) ELSE customPrompt]_vars

\* Apply was clicked with a typed prompt and no preset selected.
C21_Witness ==
    /\ last.op = "handleApply"
    /\ selectedPresetPrompt = Null /\ customPrompt = "make it blue"
    /\ pending # Null /\ Val(pending).arg = <<"make it blue">>
    /\ isLoading

(***************************************************************************)
(* Properties of the image-generation screen.                              *)
(***************************************************************************)
GenerateSubmitted == last'.op = "GenerateScreen.handleGenerate"

\* C22: in the image-generation screen a generation with a blank prompt sets
\* an error and calls the service zero times; a generation that starts clears
\* the previous result and error; in every reachable state a non-null error
\* or isLoading = true implies generatedImageUrl = null; and "Edit this
\* Image" hands a file over only when the last generation to settle
\* succeeded and its result is still shown.
C22_GenerateScreenSafety ==
    /\ []((GenerateScreen_error # Null \/ GenerateScreen_isLoading)
             => generatedImageUrl = Null)
    /\ [][(GenerateSubmitted /\ GenerateScreen_prompt \in {"", " "})
            => /\ GenerateScreen_error' = Some("Please enter a prompt to generate an image.")
               /\ UNCHANGED <<GenerateScreen_pending, GenerateScreen_isLoading>>]_vars
    /\ [][(GenerateSubmitted /\ GenerateScreen_prompt \notin {"", " "})
            => /\ GenerateScreen_pending' # Null /\ GenerateScreen_isLoading'
               /\ generatedImageUrl' = Null /\ GenerateScreen_error' = Null]_vars
    /\ [][(last'.op = "handleEdit" /\ last'.arg # <<>>)
            => /\ generationOutcome = "fulfilled"
               /\ generatedImageUrl = Some(last'.arg[1])
               /\ GenerateScreen_error = Null /\ ~GenerateScreen_isLoading]_vars

\* A file was handed to the editor from the result of a 16:9 generation.
C22_Witness ==
    /\ last.op = "handleEdit" /\ last.arg = <<"data:image/png;base64,">>
    /\ generatedImageUrl = Some("data:image/png;base64,")
    /\ generationOutcome = "fulfilled"
    /\ GenerateScreen_prompt = "make it blue"
    /\ activeAspect = "16:9"

(***************************************************************************)
(* Consistency of the history and its position.                            *)
(***************************************************************************)
\* C23: in every reachable state the history is empty exactly when
\* historyIndex = -1, and otherwise 0 <= historyIndex <= Len(history) - 1, so
\* that a current image exists whenever the history is not empty, for every
\* interleaving of upload, upload-new, edits and their completions, undo,
\* redo and reset.
C23_HistoryConsistent ==
    /\ (history = <<>>) <=> (historyIndex = -1)
    /\ history # <<>> =>
          /\ 0 <= historyIndex /\ historyIndex <= Len(history) - 1
          /\ currentImage = Some(history[historyIndex + 1])

\* A two-snapshot history whose second snapshot is the third file created:
\* an append that followed an undo, a reset or an "Upload New".
C23_Witness ==
    /\ last.op = "addImageToHistory"
    /\ Len(history) = 2 /\ historyIndex = 1
    /\ history[1].id = 1 /\ history[2].id = 3

====
